---- MODULE Spec2Model ----
(***************************************************************************)
(* Model of the zapd daemon (src/zapd/app.py): the module-level            *)
(* configuration load, the transfer callback on_transfer_utx, the SIGINT   *)
(* handler, and the supervising main loop with its shutdown sequence.      *)
(* The collaborators config, rpc, utx and utils are not part of the        *)
(* sources at hand; where they are needed they are modelled from the       *)
(* written specification and marked so in the map of definitions.          *)
(***************************************************************************)
EXTENDS Integers, Sequences, FiniteSets, TLC

(* ------------------------------ bounds -------------------------------- *)

\* number of transfer events the node feed delivers in one run
MaxEvents == 2

(* ------------------------- program constants -------------------------- *)

\* app.py:70  "if len(group) < 3": number of essential greenlets
EssentialGreenlets == 3

\* the base58 radix (base58.b58encode, called at app.py:40)
B58Radix == 58

\* the value of one byte position (base58.b58encode: p = p << 8)
ByteRadix == 256

(* ------------------------------ base58 -------------------------------- *)

\* number of leading zero bytes of v
RECURSIVE LeadingZeros(_)
LeadingZeros(v) ==
    IF v = <<>> \/ Head(v) # 0 THEN 0 ELSE 1 + LeadingZeros(Tail(v))

\* big-endian value of the byte string v
RECURSIVE BytesToInt(_)
BytesToInt(v) ==
    IF v = <<>> THEN 0
    ELSE Head(v) * ByteRadix ^ (Len(v) - 1) + BytesToInt(Tail(v))

\* base58 digits (alphabet indexes) of n, most significant first; 0 gives
\* the empty string
RECURSIVE b58encode_int(_)
b58encode_int(n) ==
    IF n = 0 THEN <<>>
    ELSE Append(b58encode_int(n \div B58Radix), n % B58Radix)

\* base58.b58encode: one digit 0 per leading zero byte, then the digits of
\* the remaining bytes read as a big-endian integer
b58encode(v) ==
    [i \in 1..LeadingZeros(v) |-> 0] \o b58encode_int(BytesToInt(v))

(* ------------------------- configuration ------------------------------ *)

\* raw recipient bytes of the merchant and the address string made of them
MerchantRaw == <<1, 58>>
MerchantAddress == <<5, 24>>
\* a required setting that the file does not give
Missing == <<>>

\* contents the configuration file can have when the daemon starts
RawConfigs ==
    { [address |-> MerchantAddress, testnet |-> TRUE],
      [address |-> MerchantAddress, testnet |-> FALSE],
      [address |-> Missing,         testnet |-> TRUE] }

\* config.read_cfg: raises on a missing or malformed required setting
read_cfg(raw) ==
    [raised |-> raw.address = Missing, cfg |-> raw]

NoCfg == [address |-> Missing, testnet |-> FALSE]

\* variant of load_config: the exception of read_cfg is swallowed
load_config_swallow(raw) ==
    LET r == read_cfg(raw) IN
    [pc |-> "main", cfg |-> r.cfg,
     chain |-> IF r.cfg.testnet THEN "testnet" ELSE "mainnet"]

\* app.py:16-22, the module-level statements: an exception of read_cfg ends
\* the process before anything below it runs
load_config(raw) ==
    LET r == read_cfg(raw) IN
    IF r.raised
    THEN [pc |-> "crashed", cfg |-> NoCfg, chain |-> "mainnet"]
    ELSE [pc |-> "main", cfg |-> r.cfg,
          chain |-> IF r.cfg.testnet THEN "testnet" ELSE "mainnet"]

(* --------------------------- transfer events -------------------------- *)

\* no invoice id: the empty sentinel
Absent == <<>>
Tag == 73

\* attachments: a tagged, length-prefixed invoice id, or something else
AttInv42 == <<Tag, 2, 4, 2>>
AttInv9 == <<Tag, 1, 9>>
AttMalformed == <<Tag, 3, 4, 2>>
AttEmpty == <<>>

\* utils.extract_invoice_id: total, absent on anything not well formed
extract_invoice_id(att) ==
    IF Len(att) > 2 /\ att[1] = Tag /\ att[2] = Len(att) - 2
    THEN SubSeq(att, 3, Len(att))
    ELSE Absent

\* utils.address_from_public_key: derivation under the selected chain
address_from_public_key(chain, pubkey) ==
    [chain |-> chain, hash_of |-> pubkey]

\* utils.create_signed_payment_notification: the canonical message in its
\* fixed field order and the signature over it
create_signed_payment_notification(txid, timestamp, recipient, from_, amount, invoice_id) ==
    LET msg == [txid |-> txid, timestamp |-> timestamp, recipient |-> recipient,
                sender |-> from_, amount |-> amount, invoice_id |-> invoice_id]
    IN [msg |-> msg, sig |-> [signed |-> msg]]

BaseEvent ==
    [txid |-> "t1", sig |-> "s1", pubkey |-> "PK1", asset_id |-> "asset",
     timestamp |-> 1, amount |-> 5, fee |-> 1,
     recipient |-> MerchantRaw, attachment |-> AttInv42]

\* the transfer events the feed can deliver
Events ==
    { BaseEvent,
      [BaseEvent EXCEPT !.txid = "t2", !.sig = "s2", !.pubkey = "PK2",
                        !.timestamp = 2, !.amount = 7, !.attachment = AttInv9],
      [BaseEvent EXCEPT !.attachment = AttMalformed],
      [BaseEvent EXCEPT !.attachment = AttEmpty],
      [BaseEvent EXCEPT !.recipient = <<5, 24>>],
      [BaseEvent EXCEPT !.recipient = <<0, 1, 58>>] }

\* the notification on_transfer_utx builds for ev
Notification(chain, recipient, ev, amount, ok) ==
    LET n == create_signed_payment_notification(ev.txid, ev.timestamp, recipient,
                 address_from_public_key(chain, ev.pubkey), amount,
                 extract_invoice_id(ev.attachment))
    IN [msg |-> n.msg, sig |-> n.sig, ok |-> ok]

\* variant of on_transfer_utx: the raw recipient is compared, unencoded
on_transfer_utx_raw(c, chain, ev, ok) ==
    IF ev.recipient = c.address \/ b58encode(ev.recipient) = c.address
    THEN [posts |-> << Notification(chain, b58encode(ev.recipient), ev, ev.amount, ok) >>,
          raised |-> FALSE]
    ELSE [posts |-> <<>>, raised |-> FALSE]

\* variant of on_transfer_utx: the fee is passed where the amount belongs
on_transfer_utx_fee(c, chain, ev, ok) ==
    IF b58encode(ev.recipient) = c.address
    THEN [posts |-> << Notification(chain, b58encode(ev.recipient), ev, ev.fee, ok) >>,
          raised |-> FALSE]
    ELSE [posts |-> <<>>, raised |-> FALSE]

\* variant of on_transfer_utx: no webhook call without an invoice id
on_transfer_utx_need_invoice(c, chain, ev, ok) ==
    IF b58encode(ev.recipient) = c.address
       /\ extract_invoice_id(ev.attachment) # Absent
    THEN [posts |-> << Notification(chain, b58encode(ev.recipient), ev, ev.amount, ok) >>,
          raised |-> FALSE]
    ELSE [posts |-> <<>>, raised |-> FALSE]

\* variant of on_transfer_utx: a failed delivery leaves as an exception
on_transfer_utx_raise(c, chain, ev, ok) ==
    IF b58encode(ev.recipient) = c.address
    THEN [posts |-> << Notification(chain, b58encode(ev.recipient), ev, ev.amount, ok) >>,
          raised |-> ~ok]
    ELSE [posts |-> <<>>, raised |-> FALSE]

\* variant of on_transfer_utx: the timestamp is taken when the call is
\* made, which differs from run to run, and not from the event
on_transfer_utx_stamp(c, chain, ev, ok) ==
    IF b58encode(ev.recipient) = c.address
    THEN LET n == create_signed_payment_notification(ev.txid,
                      IF ok THEN ev.timestamp ELSE ev.timestamp + 1,
                      b58encode(ev.recipient),
                      address_from_public_key(chain, ev.pubkey), ev.amount,
                      extract_invoice_id(ev.attachment))
         IN [posts |-> << [msg |-> n.msg, sig |-> n.sig, ok |-> ok] >>,
             raised |-> FALSE]
    ELSE [posts |-> <<>>, raised |-> FALSE]

\* app.py:39-47.  posts: the webhook calls made; raised: whether an
\* exception leaves the callback.  utils.call_webhook logs a failed delivery
\* and returns, so nothing is raised.
on_transfer_utx(c, chain, ev, ok) ==
    LET recipient == b58encode(ev.recipient) IN
    IF recipient = c.address
    THEN LET from_ == address_from_public_key(chain, ev.pubkey)
             invoice_id == extract_invoice_id(ev.attachment)
             n == create_signed_payment_notification(ev.txid, ev.timestamp,
                      recipient, from_, ev.amount, invoice_id)
         IN [posts |-> << [msg |-> n.msg, sig |-> n.sig, ok |-> ok] >>,
             raised |-> FALSE]
    ELSE [posts |-> <<>>, raised |-> FALSE]

(* ----------------------------- supervisor ----------------------------- *)

\* greenlets added to the group by zaprpc.start(group) and wutx.start(group)
RpcGreenlets == {"rpc_runloop"}
UtxGreenlets == {"utx_runloop", "utx_connect"}
Greenlets == RpcGreenlets \cup UtxGreenlets

\* the greenlet of the watcher in which the feed invokes on_transfer_utx
WatcherGreenlet == "utx_runloop"

\* variant of WatcherFree: call_webhook returns when the exchange is over
WatcherFree_blocking(n) == n = 0

\* utils.call_webhook hands the call to the sink and returns: the watcher
\* takes the next event whatever number n of calls is still in flight
WatcherFree(n) == TRUE

\* variant of sigint_handler: the assignment stays local (no "global")
sigint_handler_local(kr) == kr

\* app.py:49-52
sigint_handler(kr) == FALSE

\* variant of MainLoopBody: the liveness threshold is one too low
MainLoopBody_threshold(grp, st, sent) ==
    IF Cardinality(grp) < EssentialGreenlets - 1
    THEN [emails |-> <<"death">>, sent |-> sent, brk |-> TRUE]
    ELSE IF ~sent /\ (\A g \in grp : g \in st)
         THEN [emails |-> <<"alive">>, sent |-> TRUE, brk |-> FALSE]
         ELSE [emails |-> <<>>, sent |-> sent, brk |-> FALSE]

\* variant of MainLoopBody: the loop is not left after the death alert
MainLoopBody_nobreak(grp, st, sent) ==
    IF Cardinality(grp) < EssentialGreenlets
    THEN [emails |-> <<"death">>, sent |-> sent, brk |-> FALSE]
    ELSE IF ~sent /\ (\A g \in grp : g \in st)
         THEN [emails |-> <<"alive">>, sent |-> TRUE, brk |-> FALSE]
         ELSE [emails |-> <<>>, sent |-> sent, brk |-> FALSE]

\* variant of MainLoopBody: the loop is left without the death alert
MainLoopBody_noalert(grp, st, sent) ==
    IF Cardinality(grp) < EssentialGreenlets
    THEN [emails |-> <<>>, sent |-> sent, brk |-> TRUE]
    ELSE IF ~sent /\ (\A g \in grp : g \in st)
         THEN [emails |-> <<"alive">>, sent |-> TRUE, brk |-> FALSE]
         ELSE [emails |-> <<>>, sent |-> sent, brk |-> FALSE]

\* variant of MainLoopBody: sent_start_email is never set
MainLoopBody_noflag(grp, st, sent) ==
    IF Cardinality(grp) < EssentialGreenlets
    THEN [emails |-> <<"death">>, sent |-> sent, brk |-> TRUE]
    ELSE IF ~sent /\ (\A g \in grp : g \in st)
         THEN [emails |-> <<"alive">>, sent |-> sent, brk |-> FALSE]
         ELSE [emails |-> <<>>, sent |-> sent, brk |-> FALSE]

\* variant of MainLoopBody: the started flags are not looked at
MainLoopBody_nostartcheck(grp, st, sent) ==
    IF Cardinality(grp) < EssentialGreenlets
    THEN [emails |-> <<"death">>, sent |-> sent, brk |-> TRUE]
    ELSE IF ~sent
         THEN [emails |-> <<"alive">>, sent |-> TRUE, brk |-> FALSE]
         ELSE [emails |-> <<>>, sent |-> sent, brk |-> FALSE]

\* app.py:69-85, one pass of the loop body after the sleep: the alerts
\* sent, the new value of sent_start_email, and whether the loop is left
MainLoopBody(grp, st, sent) ==
    IF Cardinality(grp) < EssentialGreenlets
    THEN [emails |-> <<"death">>, sent |-> sent, brk |-> TRUE]
    ELSE IF ~sent /\ (\A g \in grp : g \in st)
         THEN [emails |-> <<"alive">>, sent |-> TRUE, brk |-> FALSE]
         ELSE [emails |-> <<>>, sent |-> sent, brk |-> FALSE]

(* --------------------------- API-key requests ------------------------- *)

\* number of API-key requests made in one run
MaxRequests == 2

\* number of ApiKey rows stored in one run
MaxApiKeys == 2

\* the token no request has: the empty string
NoToken == 0

\* no ApiKey: None
NoKey == 0

\* emails a caller can send; one user is registered
ApiEmails == {"", "a@x", "A@X", "nobody@x"}
RegisteredUsers == {"a@x"}

\* str.lower on the emails above
Lower(email) == IF email = "A@X" THEN "a@x" ELSE email

\* the secret generated for a request and a secret that does not match it
GoodSecret == "good"
BadSecret == "bad"

NoResp == [op |-> "none", token |-> NoToken, stored |-> FALSE,
           status |-> "none", key |-> NoKey]

\* ApiKeyRequest.from_token: the stored requests with this token
from_token(reqs, token) == {r \in reqs : r.token = token}

\* paydb_endpoint.py:174-195.  token is the one the new ApiKeyRequest gets;
\* issued tells whether a request object was constructed
api_key_request(reqs, email, token) ==
    IF email = ""
    THEN [status |-> "INVALID_EMAIL", reqs |-> reqs, issued |-> FALSE]
    ELSE IF Lower(email) \notin RegisteredUsers
         THEN [status |-> "OK", reqs |-> reqs, issued |-> TRUE]
         ELSE [status |-> "OK", issued |-> TRUE,
               reqs |-> reqs \cup {[token |-> token, secret |-> GoodSecret,
                                    user |-> Lower(email),
                                    created_api_key |-> NoKey]}]

\* variant of api_key_claim: the request is not deleted after the claim
api_key_claim_nodelete(reqs, token) ==
    IF token = NoToken
    THEN [status |-> "NOT_FOUND", reqs |-> reqs, key |-> NoKey]
    ELSE IF from_token(reqs, token) = {}
         THEN [status |-> "FAULT", reqs |-> reqs, key |-> NoKey]
         ELSE LET req == CHOOSE r \in from_token(reqs, token) : TRUE IN
              IF req.created_api_key = NoKey
              THEN [status |-> "NOT_CREATED", reqs |-> reqs, key |-> NoKey]
              ELSE [status |-> "OK", reqs |-> reqs, key |-> req.created_api_key]

\* paydb_endpoint.py:197-218.  The test at line 208 is on the token, so a
\* token without a stored request reaches req.created_api_key with req =
\* None at line 212: an AttributeError, which ends the call as a fault
api_key_claim(reqs, token) ==
    IF token = NoToken
    THEN [status |-> "NOT_FOUND", reqs |-> reqs, key |-> NoKey]
    ELSE IF from_token(reqs, token) = {}
         THEN [status |-> "FAULT", reqs |-> reqs, key |-> NoKey]
         ELSE LET req == CHOOSE r \in from_token(reqs, token) : TRUE IN
              IF req.created_api_key = NoKey
              THEN [status |-> "NOT_CREATED", reqs |-> reqs, key |-> NoKey]
              ELSE [status |-> "OK", reqs |-> reqs \ {req},
                    key |-> req.created_api_key]

\* paydb_endpoint.py:220-254.  keys is the set of stored ApiKey rows; a new
\* row gets the next id.  for_token notes the request a key was made for.
api_key_confirm(reqs, keys, expired, token, secret, method, confirm) ==
    IF from_token(reqs, token) = {}
    THEN [status |-> "not found", reqs |-> reqs, keys |-> keys]
    ELSE LET req == CHOOSE r \in from_token(reqs, token) : TRUE IN
         IF req.secret # secret
         THEN [status |-> "code invalid", reqs |-> reqs, keys |-> keys]
         ELSE IF token \in expired
         THEN [status |-> "expired", reqs |-> reqs, keys |-> keys]
         ELSE IF method = "POST"
         THEN IF ~confirm
              THEN [status |-> "cancelled", reqs |-> reqs \ {req}, keys |-> keys]
              ELSE LET id == Cardinality(keys) + 1
                       api_key == [id |-> id, user |-> req.user,
                                   for_token |-> token]
                   IN [status |-> "confirmed",
                       reqs |-> (reqs \ {req}) \cup
                                {[req EXCEPT !.created_api_key = id]},
                       keys |-> keys \cup {api_key}]
         ELSE [status |-> "form", reqs |-> reqs, keys |-> keys]

(* ----------------------------- broker orders -------------------------- *)

\* number of broker orders created in one run
MaxOrders == 2

\* the users that hold an API key, and the caller whose request fails the
\* authentication of auth_request_get_single_param
BrokerUsers == {"a@x", "b@x"}
NoUser == ""

\* BrokerOrder.STATUS_CREATED and BrokerOrder.STATUS_READY
STATUS_CREATED == "created"
STATUS_READY == "ready"

\* no payment request: None
NoPayment == 0

\* results of dasset.bid_quote_amount
QuoteResults == {"OK", "INSUFFICIENT_LIQUIDITY", "AMOUNT_TOO_LOW"}

NoBrokerResp == [op |-> "none", token |-> NoToken, caller |-> NoUser,
                 status |-> "none"]

\* BrokerOrder.from_token: the stored orders with this token
order_from_token(orders, token) == {o \in orders : o.token = token}

\* paydb_endpoint.py:398-425.  token is the one the new BrokerOrder gets
broker_order_create(orders, caller, token, kyc, market_ok, side_ok, quote, recipient_ok) ==
    IF caller = NoUser
    THEN [status |-> "AUTH_FAILED", orders |-> orders]
    ELSE IF ~kyc
    THEN [status |-> "KYC_NOT_VALIDATED", orders |-> orders]
    ELSE IF ~market_ok
    THEN [status |-> "INVALID_MARKET", orders |-> orders]
    ELSE IF ~side_ok
    THEN [status |-> "INVALID_SIDE", orders |-> orders]
    ELSE IF quote = "INSUFFICIENT_LIQUIDITY"
    THEN [status |-> "INSUFFICIENT_LIQUIDITY", orders |-> orders]
    ELSE IF quote = "AMOUNT_TOO_LOW"
    THEN [status |-> "AMOUNT_TOO_LOW", orders |-> orders]
    ELSE IF ~recipient_ok
    THEN [status |-> "INVALID_RECIPIENT", orders |-> orders]
    ELSE [status |-> "OK",
          orders |-> orders \cup
                     {[token |-> token, user |-> caller,
                       status |-> STATUS_CREATED,
                       windcave_payment_request |-> NoPayment]}]

\* variant of broker_order_accept: the status of the order is not tested
broker_order_accept_nostatus(orders, payments, expired, token, caller, pay_ok) ==
    IF caller = NoUser
    THEN [status |-> "AUTH_FAILED", orders |-> orders, payments |-> payments]
    ELSE IF \/ order_from_token(orders, token) = {}
            \/ \E o \in order_from_token(orders, token) : o.user # caller
    THEN [status |-> "NOT_FOUND", orders |-> orders, payments |-> payments]
    ELSE LET broker_order == CHOOSE o \in order_from_token(orders, token) : TRUE
             req == IF pay_ok THEN Cardinality(payments) + 1 ELSE NoPayment
         IN
         IF token \in expired
         THEN [status |-> "EXPIRED", orders |-> orders, payments |-> payments]
         ELSE IF req = NoPayment
         THEN [status |-> "FAILED_PAYMENT_CREATE", orders |-> orders,
               payments |-> payments]
         ELSE [status |-> "OK",
               orders |-> (orders \ {broker_order}) \cup
                          {[broker_order EXCEPT
                              !.windcave_payment_request = req,
                              !.status = STATUS_READY]},
               payments |-> payments \cup {req}]

\* paydb_endpoint.py:437-458.  payments is the set of stored payment
\* requests, a new one gets the next id; pay_ok tells whether
\* payments_core.payment_create returns a request
broker_order_accept(orders, payments, expired, token, caller, pay_ok) ==
    IF caller = NoUser
    THEN [status |-> "AUTH_FAILED", orders |-> orders, payments |-> payments]
    ELSE IF \/ order_from_token(orders, token) = {}
            \/ \E o \in order_from_token(orders, token) : o.user # caller
    THEN [status |-> "NOT_FOUND", orders |-> orders, payments |-> payments]
    ELSE LET broker_order == CHOOSE o \in order_from_token(orders, token) : TRUE
             req == IF pay_ok THEN Cardinality(payments) + 1 ELSE NoPayment
         IN
         IF token \in expired
         THEN [status |-> "EXPIRED", orders |-> orders, payments |-> payments]
         ELSE IF broker_order.status # STATUS_CREATED
         THEN [status |-> "INVALID_STATUS", orders |-> orders,
               payments |-> payments]
         ELSE IF req = NoPayment
         THEN [status |-> "FAILED_PAYMENT_CREATE", orders |-> orders,
               payments |-> payments]
         ELSE [status |-> "OK",
               orders |-> (orders \ {broker_order}) \cup
                          {[broker_order EXCEPT
                              !.windcave_payment_request = req,
                              !.status = STATUS_READY]},
               payments |-> payments \cup {req}]

(* ------------------- registration and email update -------------------- *)

\* number of registration and email-update requests made in one run
MaxUserRequests == 2

\* number of confirmation calls that can be under way at one time
MaxCalls == 2

\* number of User rows stored in one run
MaxUsers == 3

\* emails a caller can send; the user with id 1 is registered as "a@x"
UserEmails == {"", "a@x", "n@x", "N@X", "m@x"}
FirstUser == [id |-> 1, email |-> "a@x"]

\* str.lower on the emails above
LowerEmail(email) == IF email = "N@X" THEN "n@x" ELSE email

\* the caller whose request fails authentication
NoUserId == 0

NoUserResp == [op |-> "none", token |-> NoToken, status |-> "none"]

\* a confirmation call that is not under way
Idle == [op |-> "idle", token |-> NoToken, email |-> "", user |-> NoUserId]

\* User.from_email: the stored users with this email
user_from_email(users, email) == {u \in users : u.email = email}

\* UserCreateRequest.from_token / UserUpdateEmailRequest.from_token
user_req_from_token(reqs, token) == {r \in reqs : r.token = token}

\* paydb_endpoint.py:93-118.  token is the one the new UserCreateRequest gets
user_register(users, reqs, email, password_ok, token) ==
    IF email = ""
    THEN [status |-> "INVALID_EMAIL", reqs |-> reqs]
    ELSE IF ~password_ok
    THEN [status |-> "EMPTY_PASSWORD", reqs |-> reqs]
    ELSE IF user_from_email(users, LowerEmail(email)) # {}
    THEN [status |-> "USER_EXISTS", reqs |-> reqs]
    ELSE [status |-> "OK",
          reqs |-> reqs \cup {[token |-> token, email |-> LowerEmail(email)]}]

\* paydb_endpoint.py:287-304.  caller is the id of api_key.user
user_update_email(users, reqs, caller, email, token) ==
    IF caller = NoUserId
    THEN [status |-> "AUTH_FAILED", reqs |-> reqs]
    ELSE IF email = ""
    THEN [status |-> "INVALID_EMAIL", reqs |-> reqs]
    ELSE IF user_from_email(users, LowerEmail(email)) # {}
    THEN [status |-> "USER_EXISTS", reqs |-> reqs]
    ELSE [status |-> "OK",
          reqs |-> reqs \cup {[token |-> token, user |-> caller,
                               email |-> LowerEmail(email)]}]

\* paydb_endpoint.py:123-134: the reads and tests of
\* user_registration_confirm, up to the point where the user is created
user_registration_confirm_check(users, reqs, expired, token) ==
    IF user_req_from_token(reqs, token) = {}
    THEN "not found"
    ELSE LET req == CHOOSE r \in user_req_from_token(reqs, token) : TRUE IN
         IF user_from_email(users, req.email) # {}
         THEN "exists"
         ELSE IF token \in expired
         THEN "expired"
         ELSE "pass"

\* paydb_endpoint.py:135-142: the writes of user_registration_confirm, made
\* by a call that read the request p before.  stored tells whether the
\* commit goes through; a new user gets the next id
user_registration_confirm_commit(users, reqs, p, stored) ==
    IF stored
    THEN [users |-> users \cup {[id |-> Cardinality(users) + 1,
                                 email |-> p.email]},
          reqs |-> reqs \ user_req_from_token(reqs, p.token),
          status |-> "registered"]
    ELSE [users |-> users, reqs |-> reqs, status |-> "FAULT"]

\* paydb_endpoint.py:309-320: the reads and tests of
\* user_update_email_confirm, up to the point where the user is changed
user_update_email_confirm_check(users, reqs, expired, token) ==
    IF user_req_from_token(reqs, token) = {}
    THEN "not found"
    ELSE LET req == CHOOSE r \in user_req_from_token(reqs, token) : TRUE IN
         IF token \in expired
         THEN "expired"
         ELSE IF user_from_email(users, req.email) # {}
         THEN "USER_EXISTS"
         ELSE "pass"

\* paydb_endpoint.py:321-325: the writes of user_update_email_confirm
user_update_email_confirm_commit(users, reqs, p, stored) ==
    IF stored
    THEN [users |-> {IF u.id = p.user THEN [u EXCEPT !.email = p.email] ELSE u
                       : u \in users},
          reqs |-> reqs \ user_req_from_token(reqs, p.token),
          status |-> "updated"]
    ELSE [users |-> users, reqs |-> reqs, status |-> "FAULT"]

(* ------------------------- websocket sessions ------------------------- *)

\* number of websocket sessions in one run; a session id is used once
MaxSessions == 2

Sids == 1..MaxSessions

\* the users whose API keys a client can authenticate with
WsUsers == {"a@x", "b@x"}

\* what a client can send as the auth event: text that is not JSON, an
\* object that lacks one of the three fields, and a complete object whose
\* signature check_auth rejects or accepts for the key of one user
AuthMessages ==
    {[kind |-> k, user |-> "a@x"] :
        k \in {"invalid json", "no api_key", "no nonce", "no signature"}}
    \cup {[kind |-> k, user |-> u] : k \in {"bad", "good"}, u \in WsUsers}

NoInfo == [op |-> "none", sid |-> 0, text |-> "none"]

\* the dict d with d[k] = v
DictSet(d, k, v) ==
    [x \in DOMAIN d \cup {k} |-> IF x = k THEN v ELSE d[x]]

\* the dict d after del d[k]
DictDel(d, k) == [x \in DOMAIN d \ {k} |-> d[x]]

\* paydb_endpoint.py:48-76.  rooms gives, per session, the rooms it is in
on_auth(sids, rooms, sid, auth) ==
    IF auth.kind = "invalid json"
    THEN [ws_sids |-> sids, rooms |-> rooms, info |-> "invalid json"]
    ELSE IF auth.kind = "no api_key"
    THEN [ws_sids |-> sids, rooms |-> rooms,
          info |-> "'api_key' param missing"]
    ELSE IF auth.kind = "no nonce"
    THEN [ws_sids |-> sids, rooms |-> rooms, info |-> "'nonce' param missing"]
    ELSE IF auth.kind = "no signature"
    THEN [ws_sids |-> sids, rooms |-> rooms,
          info |-> "'signature' param missing"]
    ELSE IF auth.kind = "good"
    THEN [ws_sids |-> DictSet(sids, sid, auth.user),
          rooms |-> [rooms EXCEPT ![sid] = @ \cup {auth.user}],
          info |-> "authenticated!"]
    ELSE [ws_sids |-> sids, rooms |-> rooms, info |-> "failed authentication"]

\* paydb_endpoint.py:78-85
on_disconnect(sids, rooms, sid) ==
    IF sid \in DOMAIN sids
    THEN [ws_sids |-> DictDel(sids, sid),
          rooms |-> [rooms EXCEPT ![sid] = @ \ {sids[sid]}]]
    ELSE [ws_sids |-> sids, rooms |-> rooms]

\* paydb_endpoint.py:34-38: the rooms a transaction is emitted to;
\* recipient is "" where the transaction has none
tx_event(sender, recipient) ==
    IF recipient # "" /\ recipient # sender
    THEN {sender, recipient}
    ELSE {sender}

VARIABLES
    rawcfg,            \* the configuration file's content
    pc,                \* position of the main greenlet
    cfg,               \* app.py:16 cfg
    chain,             \* pywaves chain selection, app.py:20-22
    keep_running,      \* app.py:54
    sigint_caught,     \* whether sigint_handler has run
    sent_start_email,  \* app.py:66
    group,             \* gevent.pool.Group: the greenlets not yet finished
    started,           \* greenlets whose started flag is set
    emails,            \* alerts sent: utils.email_alive / utils.email_death
    stopped,           \* stop() calls made, in order
    delivered,         \* events the feed handed to on_transfer_utx
    webhook,           \* calls of utils.call_webhook, in order
    inflight,          \* webhook calls handed over and not yet completed
    start_calls,       \* start(group) calls made, in order
    api_requests,      \* the stored ApiKeyRequest rows
    api_keys,          \* the stored ApiKey rows
    tokens_issued,     \* number of request tokens generated so far
    api_expired,       \* tokens of the requests whose expiry has passed
    api_resp,          \* the response to the last API-key call
    api_claimed,       \* per token, the claims that returned a key (up to 2)
    api_confirmed,     \* tokens confirmed with the right secret, in time
    broker_orders,     \* the stored BrokerOrder rows
    payment_requests,  \* the stored payment requests
    orders_issued,     \* number of order tokens generated so far
    broker_expired,    \* tokens of the orders whose expiry has passed
    broker_resp,       \* the response to the last broker-order call
    broker_accepts,    \* per token, the accepts that succeeded (up to 2)
    users,             \* the stored User rows
    create_requests,   \* the stored UserCreateRequest rows
    update_requests,   \* the stored UserUpdateEmailRequest rows
    user_tokens_issued, \* number of request tokens generated so far
    user_expired,      \* tokens of the requests whose expiry has passed
    user_calls,        \* confirmation calls between their tests and writes
    user_resp,         \* the response to the last call that answered
    token_uses,        \* per token, the commits that wrote a user (up to 2)
    ws_seen,           \* session ids that have connected
    ws_connected,      \* sessions connected now
    ws_sids,           \* paydb_endpoint.py:26 ws_sids
    ws_rooms,          \* per session, the rooms it is joined to
    ws_authed,         \* connected sessions that have authenticated
    ws_info,           \* the last event and the info message it emitted
    ws_tx              \* the sessions the last transaction was sent to

vars == <<rawcfg, pc, cfg, chain, keep_running, sigint_caught, sent_start_email,
          group, started, emails, stopped, delivered, webhook, inflight,
          start_calls, api_requests, api_keys, tokens_issued, api_expired,
          api_resp, api_claimed, api_confirmed, broker_orders,
          payment_requests, orders_issued, broker_expired, broker_resp,
          broker_accepts, users, create_requests, update_requests,
          user_tokens_issued, user_expired, user_calls, user_resp,
          token_uses, ws_seen, ws_connected, ws_sids, ws_rooms, ws_authed,
          ws_info, ws_tx>>

\* the state of the daemon (src/zapd/app.py)
daemonvars == <<rawcfg, pc, cfg, chain, keep_running, sigint_caught,
                sent_start_email, group, started, emails, stopped, delivered,
                webhook, inflight, start_calls>>

\* the state behind the API-key endpoints (src/paydb_endpoint.py)
apivars == <<api_requests, api_keys, tokens_issued, api_expired, api_resp,
             api_claimed, api_confirmed>>

\* the state behind the broker-order endpoints (src/paydb_endpoint.py)
brokervars == <<broker_orders, payment_requests, orders_issued,
                broker_expired, broker_resp, broker_accepts>>

\* the state behind the registration and email-update endpoints
uservars == <<users, create_requests, update_requests, user_tokens_issued,
              user_expired, user_calls, user_resp, token_uses>>

\* one registered user, no request stored, no call under way
UserInit ==
    /\ users = {FirstUser}
    /\ create_requests = {}
    /\ update_requests = {}
    /\ user_tokens_issued = 0
    /\ user_expired = {}
    /\ user_calls = [c \in 1..MaxCalls |-> Idle]
    /\ user_resp = NoUserResp
    /\ token_uses = [t \in 1..MaxUserRequests |-> 0]

\* the state behind the websocket namespace (src/paydb_endpoint.py)
wsvars == <<ws_seen, ws_connected, ws_sids, ws_rooms, ws_authed, ws_info,
            ws_tx>>

\* no session has connected
WsInit ==
    /\ ws_seen = {}
    /\ ws_connected = {}
    /\ ws_sids = <<>>
    /\ ws_rooms = [s \in Sids |-> {}]
    /\ ws_authed = {}
    /\ ws_info = NoInfo
    /\ ws_tx = {}

\* the state behind the other endpoints of src/paydb_endpoint.py
webvars == <<brokervars, uservars, wsvars>>

\* no broker order has been created
BrokerInit ==
    /\ broker_orders = {}
    /\ payment_requests = {}
    /\ orders_issued = 0
    /\ broker_expired = {}
    /\ broker_resp = NoBrokerResp
    /\ broker_accepts = [t \in 1..MaxOrders |-> 0]

WebInit ==
    /\ BrokerInit
    /\ UserInit
    /\ WsInit

\* no API-key call has been made
ApiInit ==
    /\ api_requests = {}
    /\ api_keys = {}
    /\ tokens_issued = 0
    /\ api_expired = {}
    /\ api_resp = NoResp
    /\ api_claimed = [t \in 1..MaxRequests |-> 0]
    /\ api_confirmed = {}

Init ==
    /\ rawcfg \in RawConfigs
    /\ pc = "load"
    /\ cfg = NoCfg
    /\ chain = "mainnet"
    /\ keep_running = TRUE
    /\ sigint_caught = FALSE
    /\ sent_start_email = FALSE
    /\ group = {}
    /\ started = {}
    /\ emails = <<>>
    /\ stopped = <<>>
    /\ delivered = <<>>
    /\ webhook = <<>>
    /\ inflight = 0
    /\ start_calls = <<>>
    /\ ApiInit
    /\ WebInit

\* app.py:16-22
ReadCfg ==
    /\ pc = "load"
    /\ LET r == load_config(rawcfg) IN
        /\ pc' = r.pc
        /\ cfg' = r.cfg
        /\ chain' = r.chain
    /\ UNCHANGED <<rawcfg, keep_running, sigint_caught, sent_start_email, group,
                   started, emails, stopped, delivered, webhook>>
    /\ UNCHANGED <<inflight, start_calls>>
    /\ UNCHANGED apivars
    /\ UNCHANGED webvars

\* app.py:55-66: the handler is installed, both workers add their greenlets
\* to the group, and the loop is about to be entered
Startup ==
    /\ pc = "main"
    /\ group' = RpcGreenlets \cup UtxGreenlets
    /\ start_calls' = start_calls \o <<"zaprpc", "wutx">>
    /\ sent_start_email' = FALSE
    /\ pc' = "loop_head"
    /\ UNCHANGED <<rawcfg, cfg, chain, keep_running, sigint_caught, started,
                   emails, stopped, delivered, webhook>>
    /\ UNCHANGED inflight
    /\ UNCHANGED apivars
    /\ UNCHANGED webvars

\* variant of LoopHead: the run flag is not tested ("while True")
LoopHead_ignore ==
    /\ pc = "loop_head"
    /\ pc' = "sleep"
    /\ UNCHANGED <<rawcfg, cfg, chain, keep_running, sigint_caught,
                   sent_start_email, group, started, emails, stopped,
                   delivered, webhook, inflight, start_calls>>
    /\ UNCHANGED apivars
    /\ UNCHANGED webvars

\* app.py:67-68: the loop condition, then gevent.sleep(1) or the loop's end
LoopHead ==
    /\ pc = "loop_head"
    /\ pc' = IF keep_running THEN "sleep" ELSE "stopping"
    /\ UNCHANGED <<rawcfg, cfg, chain, keep_running, sigint_caught,
                   sent_start_email, group, started, emails, stopped,
                   delivered, webhook>>
    /\ UNCHANGED <<inflight, start_calls>>
    /\ UNCHANGED apivars
    /\ UNCHANGED webvars

\* variant of Wake: a dead worker is started again instead of shutting down
Wake_restart ==
    /\ pc = "sleep"
    /\ LET r == MainLoopBody(group, started, sent_start_email) IN
        /\ emails' = emails \o r.emails
        /\ sent_start_email' = r.sent
        /\ group' = IF r.brk THEN Greenlets ELSE group
        /\ start_calls' = IF r.brk THEN start_calls \o <<"zaprpc", "wutx">>
                          ELSE start_calls
    /\ pc' = "loop_head"
    /\ UNCHANGED <<rawcfg, cfg, chain, keep_running, sigint_caught, started,
                   stopped, delivered, webhook, inflight>>
    /\ UNCHANGED apivars
    /\ UNCHANGED webvars

\* variant of Wake: the loop drops the greenlets that have not started
Wake_prune ==
    /\ pc = "sleep"
    /\ LET r == MainLoopBody(group, started, sent_start_email) IN
        /\ emails' = emails \o r.emails
        /\ sent_start_email' = r.sent
        /\ pc' = IF r.brk THEN "stopping" ELSE "loop_head"
    /\ group' = group \cap started
    /\ UNCHANGED <<rawcfg, cfg, chain, keep_running, sigint_caught, started,
                   stopped, delivered, webhook, inflight, start_calls>>
    /\ UNCHANGED apivars
    /\ UNCHANGED webvars

\* app.py:69-85: the sleep returns and the two checks run
Wake ==
    /\ pc = "sleep"
    /\ LET r == MainLoopBody(group, started, sent_start_email) IN
        /\ emails' = emails \o r.emails
        /\ sent_start_email' = r.sent
        /\ pc' = IF r.brk THEN "stopping" ELSE "loop_head"
    /\ UNCHANGED <<rawcfg, cfg, chain, keep_running, sigint_caught, group,
                   started, stopped, delivered, webhook>>
    /\ UNCHANGED <<inflight, start_calls>>
    /\ UNCHANGED apivars
    /\ UNCHANGED webvars

\* app.py:86-87
StopWutx ==
    /\ pc = "stopping"
    /\ stopped' = Append(stopped, "wutx")
    /\ pc' = "stop_rpc"
    /\ UNCHANGED <<rawcfg, cfg, chain, keep_running, sigint_caught,
                   sent_start_email, group, started, emails, delivered, webhook>>
    /\ UNCHANGED <<inflight, start_calls>>
    /\ UNCHANGED apivars
    /\ UNCHANGED webvars

\* app.py:88
StopRpc ==
    /\ pc = "stop_rpc"
    /\ stopped' = Append(stopped, "zaprpc")
    /\ pc' = "done"
    /\ UNCHANGED <<rawcfg, cfg, chain, keep_running, sigint_caught,
                   sent_start_email, group, started, emails, delivered, webhook>>
    /\ UNCHANGED <<inflight, start_calls>>
    /\ UNCHANGED apivars
    /\ UNCHANGED webvars

\* app.py:49-52, 57: SIGINT arrives while the handler is installed
Sigint ==
    /\ pc \in {"loop_head", "sleep", "stopping", "stop_rpc"}
    /\ keep_running' = sigint_handler(keep_running)
    /\ sigint_caught' = TRUE
    /\ UNCHANGED <<rawcfg, pc, cfg, chain, sent_start_email, group, started,
                   emails, stopped, delivered, webhook>>
    /\ UNCHANGED <<inflight, start_calls>>
    /\ UNCHANGED apivars
    /\ UNCHANGED webvars

\* a greenlet of the group is switched to for the first time; greenlets run
\* only while the main greenlet is in gevent.sleep
GreenletStart(g) ==
    /\ pc = "sleep"
    /\ g \in group \ started
    /\ started' = started \cup {g}
    /\ UNCHANGED <<rawcfg, pc, cfg, chain, keep_running, sigint_caught,
                   sent_start_email, group, emails, stopped, delivered, webhook>>
    /\ UNCHANGED <<inflight, start_calls>>
    /\ UNCHANGED apivars
    /\ UNCHANGED webvars

\* a running greenlet finishes, normally or by an exception; the group
\* discards it
GreenletExit(g) ==
    /\ pc = "sleep"
    /\ g \in group \cap started
    /\ group' = group \ {g}
    /\ started' = started \ {g}
    /\ UNCHANGED <<rawcfg, pc, cfg, chain, keep_running, sigint_caught,
                   sent_start_email, emails, stopped, delivered, webhook>>
    /\ UNCHANGED <<inflight, start_calls>>
    /\ UNCHANGED apivars
    /\ UNCHANGED webvars

\* variant of Deliver: the new call is put in front of the earlier ones
Deliver_prepend(ev, ok) ==
    /\ pc = "sleep"
    /\ WatcherGreenlet \in group \cap started
    /\ Len(delivered) < MaxEvents
    /\ WatcherFree(inflight)
    /\ LET r == on_transfer_utx(cfg, chain, ev, ok) IN
        /\ webhook' = r.posts \o webhook
        /\ inflight' = inflight + Len(r.posts)
        /\ group' = IF r.raised THEN group \ {WatcherGreenlet} ELSE group
        /\ started' = IF r.raised THEN started \ {WatcherGreenlet} ELSE started
    /\ delivered' = Append(delivered, ev)
    /\ UNCHANGED <<rawcfg, pc, cfg, chain, keep_running, sigint_caught,
                   sent_start_email, emails, stopped, start_calls>>
    /\ UNCHANGED apivars
    /\ UNCHANGED webvars

\* the feed hands one event to on_transfer_utx in the watcher's greenlet;
\* ok is the outcome of the webhook delivery.  An exception leaving the
\* callback ends the watcher's greenlet.
Deliver(ev, ok) ==
    /\ pc = "sleep"
    /\ WatcherGreenlet \in group \cap started
    /\ Len(delivered) < MaxEvents
    /\ WatcherFree(inflight)
    /\ LET r == on_transfer_utx(cfg, chain, ev, ok) IN
        /\ webhook' = webhook \o r.posts
        /\ inflight' = inflight + Len(r.posts)
        /\ group' = IF r.raised THEN group \ {WatcherGreenlet} ELSE group
        /\ started' = IF r.raised THEN started \ {WatcherGreenlet} ELSE started
    /\ delivered' = Append(delivered, ev)
    /\ UNCHANGED <<rawcfg, pc, cfg, chain, keep_running, sigint_caught,
                   sent_start_email, emails, stopped>>
    /\ UNCHANGED start_calls
    /\ UNCHANGED apivars
    /\ UNCHANGED webvars

Next ==
    \/ ReadCfg
    \/ Startup
    \/ LoopHead
    \/ Wake
    \/ StopWutx
    \/ StopRpc
    \/ Sigint
    \/ \E g \in Greenlets : GreenletStart(g)
    \/ \E g \in Greenlets : GreenletExit(g)
    \/ \E ev \in Events, ok \in BOOLEAN : Deliver(ev, ok)

Spec == Init /\ [][Next]_vars

\* the sink completes one webhook call that is in flight.  Only inflight
\* changes and no other action reads it, so Spec leaves this step out and
\* SinkSpec adds it.
WebhookDone ==
    /\ pc = "sleep"
    /\ inflight > 0
    /\ inflight' = inflight - 1
    /\ UNCHANGED <<rawcfg, pc, cfg, chain, keep_running, sigint_caught,
                   sent_start_email, group, started, emails, stopped,
                   delivered, webhook, start_calls>>
    /\ UNCHANGED apivars
    /\ UNCHANGED webvars

SinkNext == Next \/ WebhookDone

SinkSpec == Init /\ [][SinkNext]_vars

\* the main greenlet is scheduled again after every sleep and runs on
Supervisor == ReadCfg \/ Startup \/ LoopHead \/ Wake \/ StopWutx \/ StopRpc

FairSpec == Spec /\ WF_vars(Supervisor)

(* ---------------------- API-key endpoints: actions -------------------- *)

\* POST /api_key_request
ApiKeyRequestCall(email) ==
    /\ tokens_issued < MaxRequests
    /\ LET token == tokens_issued + 1
           r == api_key_request(api_requests, email, token)
       IN /\ api_requests' = r.reqs
          /\ tokens_issued' = IF r.issued THEN token ELSE tokens_issued
          /\ api_resp' = [op |-> "request",
                          token |-> IF r.issued THEN token ELSE NoToken,
                          stored |-> FALSE, status |-> r.status, key |-> NoKey]
    /\ UNCHANGED <<api_keys, api_expired, api_claimed, api_confirmed>>
    /\ UNCHANGED daemonvars
    /\ UNCHANGED webvars

\* POST /api_key_claim
ApiKeyClaimCall(token) ==
    /\ LET r == api_key_claim(api_requests, token) IN
        /\ api_requests' = r.reqs
        /\ api_resp' = [op |-> "claim", token |-> token,
                        stored |-> from_token(api_requests, token) # {},
                        status |-> r.status, key |-> r.key]
        /\ api_claimed' =
             IF r.key # NoKey /\ token \in DOMAIN api_claimed
             THEN [api_claimed EXCEPT ![token] = IF @ < 2 THEN @ + 1 ELSE @]
             ELSE api_claimed
    /\ UNCHANGED <<api_keys, tokens_issued, api_expired, api_confirmed>>
    /\ UNCHANGED daemonvars
    /\ UNCHANGED webvars

\* GET or POST /api_key_confirm/<token>/<secret>
ApiKeyConfirmCall(token, secret, method, confirm) ==
    /\ LET r == api_key_confirm(api_requests, api_keys, api_expired, token,
                                secret, method, confirm)
       IN /\ r.keys = api_keys \/ Cardinality(api_keys) < MaxApiKeys
          /\ api_requests' = r.reqs
          /\ api_keys' = r.keys
          /\ api_resp' = [op |-> "confirm", token |-> token,
                          stored |-> from_token(api_requests, token) # {},
                          status |-> r.status, key |-> NoKey]
    /\ api_confirmed' =
         IF /\ from_token(api_requests, token) # {}
            /\ secret = GoodSecret
            /\ token \notin api_expired
            /\ method = "POST"
            /\ confirm
         THEN api_confirmed \cup {token}
         ELSE api_confirmed
    /\ UNCHANGED <<tokens_issued, api_expired, api_claimed>>
    /\ UNCHANGED daemonvars
    /\ UNCHANGED webvars

\* time passes the expiry of a stored request
ApiExpire(token) ==
    /\ from_token(api_requests, token) # {}
    /\ token \notin api_expired
    /\ api_expired' = api_expired \cup {token}
    /\ UNCHANGED <<api_requests, api_keys, tokens_issued, api_resp,
                   api_claimed, api_confirmed>>
    /\ UNCHANGED daemonvars
    /\ UNCHANGED webvars

\* the tokens a caller can send: none, and those of up to MaxRequests requests
ApiTokens == 0..MaxRequests

ApiNext ==
    \/ \E email \in ApiEmails : ApiKeyRequestCall(email)
    \/ \E token \in ApiTokens : ApiKeyClaimCall(token)
    \/ \E token \in ApiTokens, secret \in {GoodSecret, BadSecret},
          method \in {"GET", "POST"}, confirm \in BOOLEAN :
            ApiKeyConfirmCall(token, secret, method, confirm)
    \/ \E token \in ApiTokens : ApiExpire(token)

\* the web application runs apart from the daemon, whose state stays as
\* it is before the daemon's start
ApiSpecInit ==
    /\ rawcfg = [address |-> MerchantAddress, testnet |-> FALSE]
    /\ pc = "load"
    /\ cfg = NoCfg
    /\ chain = "mainnet"
    /\ keep_running = TRUE
    /\ sigint_caught = FALSE
    /\ sent_start_email = FALSE
    /\ group = {}
    /\ started = {}
    /\ emails = <<>>
    /\ stopped = <<>>
    /\ delivered = <<>>
    /\ webhook = <<>>
    /\ inflight = 0
    /\ start_calls = <<>>
    /\ ApiInit
    /\ WebInit

ApiSpec == ApiSpecInit /\ [][ApiNext]_vars

(* --------------------- broker-order endpoints: actions ---------------- *)

\* POST /broker_order_create
BrokerOrderCreateCall(caller, kyc, market_ok, side_ok, quote, recipient_ok) ==
    /\ orders_issued < MaxOrders
    /\ LET r == broker_order_create(broker_orders, caller, orders_issued + 1,
                                    kyc, market_ok, side_ok, quote,
                                    recipient_ok)
       IN /\ broker_orders' = r.orders
          /\ orders_issued' = IF r.status = "OK" THEN orders_issued + 1
                              ELSE orders_issued
          /\ broker_resp' = [op |-> "create",
                             token |-> IF r.status = "OK"
                                       THEN orders_issued + 1 ELSE NoToken,
                             caller |-> caller, status |-> r.status]
    /\ UNCHANGED <<payment_requests, broker_expired, broker_accepts>>
    /\ UNCHANGED <<daemonvars, apivars, uservars, wsvars>>

\* POST /broker_order_accept
BrokerOrderAcceptCall(token, caller, pay_ok) ==
    /\ LET r == broker_order_accept(broker_orders, payment_requests,
                                    broker_expired, token, caller, pay_ok)
       IN /\ broker_orders' = r.orders
          /\ payment_requests' = r.payments
          /\ broker_resp' = [op |-> "accept", token |-> token,
                             caller |-> caller, status |-> r.status]
          /\ broker_accepts' =
               IF r.status = "OK" /\ token \in DOMAIN broker_accepts
               THEN [broker_accepts EXCEPT ![token] = IF @ < 2 THEN @ + 1 ELSE @]
               ELSE broker_accepts
    /\ UNCHANGED <<orders_issued, broker_expired>>
    /\ UNCHANGED <<daemonvars, apivars, uservars, wsvars>>

\* time passes the expiry of a stored order
BrokerExpire(token) ==
    /\ order_from_token(broker_orders, token) # {}
    /\ token \notin broker_expired
    /\ broker_expired' = broker_expired \cup {token}
    /\ UNCHANGED <<broker_orders, payment_requests, orders_issued,
                   broker_resp, broker_accepts>>
    /\ UNCHANGED <<daemonvars, apivars, uservars, wsvars>>

\* the tokens a caller can send: none, and those of up to MaxOrders orders
BrokerTokens == 0..MaxOrders

BrokerNext ==
    \/ \E caller \in BrokerUsers \cup {NoUser}, kyc \in BOOLEAN,
          market_ok \in BOOLEAN, side_ok \in BOOLEAN, quote \in QuoteResults,
          recipient_ok \in BOOLEAN :
            BrokerOrderCreateCall(caller, kyc, market_ok, side_ok, quote,
                                  recipient_ok)
    \/ \E token \in BrokerTokens, caller \in BrokerUsers \cup {NoUser},
          pay_ok \in BOOLEAN :
            BrokerOrderAcceptCall(token, caller, pay_ok)
    \/ \E token \in BrokerTokens : BrokerExpire(token)

BrokerSpec == ApiSpecInit /\ [][BrokerNext]_vars

(* --------------- registration and email update: actions --------------- *)

\* POST /user_register.  The call's one write adds a request row, and the
\* confirmation repeats its test, so the call is taken in one step
UserRegisterCall(email, password_ok) ==
    /\ user_tokens_issued < MaxUserRequests
    /\ LET r == user_register(users, create_requests, email, password_ok,
                              user_tokens_issued + 1)
       IN /\ create_requests' = r.reqs
          /\ user_tokens_issued' = IF r.status = "OK"
                                   THEN user_tokens_issued + 1
                                   ELSE user_tokens_issued
          /\ user_resp' = [op |-> "register",
                           token |-> IF r.status = "OK"
                                     THEN user_tokens_issued + 1 ELSE NoToken,
                           status |-> r.status]
    /\ UNCHANGED <<users, update_requests, user_expired, user_calls,
                   token_uses>>
    /\ UNCHANGED <<daemonvars, apivars, brokervars, wsvars>>

\* POST /user_update_email, in one step for the same reason
UserUpdateEmailCall(caller, email) ==
    /\ user_tokens_issued < MaxUserRequests
    /\ caller = NoUserId \/ \E u \in users : u.id = caller
    /\ LET r == user_update_email(users, update_requests, caller, email,
                                  user_tokens_issued + 1)
       IN /\ update_requests' = r.reqs
          /\ user_tokens_issued' = IF r.status = "OK"
                                   THEN user_tokens_issued + 1
                                   ELSE user_tokens_issued
          /\ user_resp' = [op |-> "update_email",
                           token |-> IF r.status = "OK"
                                     THEN user_tokens_issued + 1 ELSE NoToken,
                           status |-> r.status]
    /\ UNCHANGED <<users, create_requests, user_expired, user_calls,
                   token_uses>>
    /\ UNCHANGED <<daemonvars, apivars, brokervars, wsvars>>

\* GET /user_registration_confirm/<token>, lines 123-134: a call that is
\* turned away answers at once, one that passes the tests goes on to its
\* writes, which other calls can precede
UserRegistrationConfirmBegin(c, token) ==
    /\ user_calls[c] = Idle
    /\ LET st == user_registration_confirm_check(users, create_requests,
                                                 user_expired, token)
       IN IF st = "pass"
          THEN LET req == CHOOSE r \in user_req_from_token(create_requests,
                                                           token) : TRUE
               IN /\ user_calls' = [user_calls EXCEPT ![c] =
                                      [op |-> "registration_confirm",
                                       token |-> token, email |-> req.email,
                                       user |-> NoUserId]]
                  /\ UNCHANGED user_resp
          ELSE /\ user_resp' = [op |-> "registration_confirm",
                                token |-> token, status |-> st]
               /\ UNCHANGED user_calls
    /\ UNCHANGED <<users, create_requests, update_requests,
                   user_tokens_issued, user_expired, token_uses>>
    /\ UNCHANGED <<daemonvars, apivars, brokervars, wsvars>>

\* GET /user_registration_confirm/<token>, lines 135-144.  The commit can
\* be refused only where it would store a second user with one email
UserRegistrationConfirmCommit(c, stored) ==
    /\ user_calls[c].op = "registration_confirm"
    /\ stored \/ user_from_email(users, user_calls[c].email) # {}
    /\ stored => Cardinality(users) < MaxUsers
    /\ LET p == user_calls[c]
           r == user_registration_confirm_commit(users, create_requests, p,
                                                 stored)
       IN /\ users' = r.users
          /\ create_requests' = r.reqs
          /\ user_resp' = [op |-> "registration_confirm", token |-> p.token,
                           status |-> r.status]
          /\ token_uses' = IF stored
                           THEN [token_uses EXCEPT ![p.token] =
                                   IF @ < 2 THEN @ + 1 ELSE @]
                           ELSE token_uses
    /\ user_calls' = [user_calls EXCEPT ![c] = Idle]
    /\ UNCHANGED <<update_requests, user_tokens_issued, user_expired>>
    /\ UNCHANGED <<daemonvars, apivars, brokervars, wsvars>>

\* GET /user_update_email_confirm/<token>, lines 309-320
UserUpdateEmailConfirmBegin(c, token) ==
    /\ user_calls[c] = Idle
    /\ LET st == user_update_email_confirm_check(users, update_requests,
                                                 user_expired, token)
       IN IF st = "pass"
          THEN LET req == CHOOSE r \in user_req_from_token(update_requests,
                                                           token) : TRUE
               IN /\ user_calls' = [user_calls EXCEPT ![c] =
                                      [op |-> "update_email_confirm",
                                       token |-> token, email |-> req.email,
                                       user |-> req.user]]
                  /\ UNCHANGED user_resp
          ELSE /\ user_resp' = [op |-> "update_email_confirm",
                                token |-> token, status |-> st]
               /\ UNCHANGED user_calls
    /\ UNCHANGED <<users, create_requests, update_requests,
                   user_tokens_issued, user_expired, token_uses>>
    /\ UNCHANGED <<daemonvars, apivars, brokervars, wsvars>>

\* GET /user_update_email_confirm/<token>, lines 321-327.  The commit can
\* be refused only where it would leave two users with one email
UserUpdateEmailConfirmCommit(c, stored) ==
    /\ user_calls[c].op = "update_email_confirm"
    /\ \/ stored
       \/ \E u \in user_from_email(users, user_calls[c].email) :
              u.id # user_calls[c].user
    /\ LET p == user_calls[c]
           r == user_update_email_confirm_commit(users, update_requests, p,
                                                 stored)
       IN /\ users' = r.users
          /\ update_requests' = r.reqs
          /\ user_resp' = [op |-> "update_email_confirm", token |-> p.token,
                           status |-> r.status]
          /\ token_uses' = IF stored
                           THEN [token_uses EXCEPT ![p.token] =
                                   IF @ < 2 THEN @ + 1 ELSE @]
                           ELSE token_uses
    /\ user_calls' = [user_calls EXCEPT ![c] = Idle]
    /\ UNCHANGED <<create_requests, user_tokens_issued, user_expired>>
    /\ UNCHANGED <<daemonvars, apivars, brokervars, wsvars>>

\* time passes the expiry of a stored request
UserExpire(token) ==
    /\ user_req_from_token(create_requests \cup update_requests, token) # {}
    /\ token \notin user_expired
    /\ user_expired' = user_expired \cup {token}
    /\ UNCHANGED <<users, create_requests, update_requests,
                   user_tokens_issued, user_calls, user_resp, token_uses>>
    /\ UNCHANGED <<daemonvars, apivars, brokervars, wsvars>>

\* the tokens a caller can send: none, and those of the requests made
UserTokens == 0..MaxUserRequests

\* the callers of user_update_email: a failed authentication and the users
UserCallers == 0..MaxUsers

UserNext ==
    \/ \E email \in UserEmails, password_ok \in BOOLEAN :
          UserRegisterCall(email, password_ok)
    \/ \E caller \in UserCallers, email \in UserEmails :
          UserUpdateEmailCall(caller, email)
    \/ \E c \in 1..MaxCalls, token \in UserTokens :
          UserRegistrationConfirmBegin(c, token)
    \/ \E c \in 1..MaxCalls, stored \in BOOLEAN :
          UserRegistrationConfirmCommit(c, stored)
    \/ \E c \in 1..MaxCalls, token \in UserTokens :
          UserUpdateEmailConfirmBegin(c, token)
    \/ \E c \in 1..MaxCalls, stored \in BOOLEAN :
          UserUpdateEmailConfirmCommit(c, stored)
    \/ \E token \in UserTokens : UserExpire(token)

UserSpec == ApiSpecInit /\ [][UserNext]_vars

(* ------------------------ websocket: actions -------------------------- *)

\* paydb_endpoint.py:45-46: a client connects with a new session id
WsConnect(sid) ==
    /\ sid \notin ws_seen
    /\ ws_seen' = ws_seen \cup {sid}
    /\ ws_connected' = ws_connected \cup {sid}
    /\ ws_info' = [op |-> "connect", sid |-> sid, text |-> "none"]
    /\ UNCHANGED <<ws_sids, ws_rooms, ws_authed, ws_tx>>
    /\ UNCHANGED <<daemonvars, apivars, brokervars, uservars>>

\* the auth event of a connected session
WsAuth(sid, auth) ==
    /\ sid \in ws_connected
    /\ LET r == on_auth(ws_sids, ws_rooms, sid, auth) IN
        /\ ws_sids' = r.ws_sids
        /\ ws_rooms' = r.rooms
        /\ ws_info' = [op |-> "auth", sid |-> sid, text |-> r.info]
    /\ ws_authed' = IF auth.kind = "good" THEN ws_authed \cup {sid}
                    ELSE ws_authed
    /\ UNCHANGED <<ws_seen, ws_connected, ws_tx>>
    /\ UNCHANGED <<daemonvars, apivars, brokervars, uservars>>

\* the disconnect event of a connected session
WsDisconnect(sid) ==
    /\ sid \in ws_connected
    /\ LET r == on_disconnect(ws_sids, ws_rooms, sid) IN
        /\ ws_sids' = r.ws_sids
        /\ ws_rooms' = r.rooms
    /\ ws_connected' = ws_connected \ {sid}
    /\ ws_authed' = ws_authed \ {sid}
    /\ ws_info' = [op |-> "disconnect", sid |-> sid, text |-> "none"]
    /\ UNCHANGED <<ws_seen, ws_tx>>
    /\ UNCHANGED <<daemonvars, apivars, brokervars, uservars>>

\* a transaction is announced: the connected sessions in its rooms get it
WsTxEvent(sender, recipient) ==
    /\ ws_tx' = {s \in ws_connected :
                   ws_rooms[s] \cap tx_event(sender, recipient) # {}}
    /\ ws_info' = [op |-> "tx", sid |-> 0, text |-> sender]
    /\ UNCHANGED <<ws_seen, ws_connected, ws_sids, ws_rooms, ws_authed>>
    /\ UNCHANGED <<daemonvars, apivars, brokervars, uservars>>

WsNext ==
    \/ \E sid \in Sids : WsConnect(sid)
    \/ \E sid \in Sids, auth \in AuthMessages : WsAuth(sid, auth)
    \/ \E sid \in Sids : WsDisconnect(sid)
    \/ \E sender \in WsUsers, recipient \in WsUsers \cup {""} :
          WsTxEvent(sender, recipient)

WsSpec == ApiSpecInit /\ [][WsNext]_vars

(* ----------------------------- properties ----------------------------- *)

\* whether ev is addressed to the configured merchant address
Matches(ev) == b58encode(ev.recipient) = cfg.address

\* the delivered events that are addressed to the merchant, in order
MatchingDelivered == SelectSeq(delivered, Matches)

\* number of alerts of one kind sent so far
Alerts(kind) == Cardinality({i \in 1..Len(emails) : emails[i] = kind})

\* the main loop has been entered and some greenlet of the set has ended
TaskDied ==
    /\ pc \in {"loop_head", "sleep", "stopping", "stop_rpc", "done"}
    /\ group # Greenlets

\* a step in which the feed delivers one event to the callback
Delivery == Len(delivered') = Len(delivered) + 1

LastDelivered == delivered'[Len(delivered')]

\* C1: a delivered transfer event whose recipient, encoded to address form,
\* differs from the configured merchant address creates no signed
\* notification and makes no webhook call.
C1_NoWebhookForOtherRecipient ==
    [][(Delivery /\ b58encode(LastDelivered.recipient) # cfg.address)
         => webhook' = webhook]_vars

C1_Witness ==
    /\ Len(delivered) = 2
    /\ b58encode(delivered[1].recipient) # cfg.address
    /\ delivered[1].recipient = <<0, 1, 58>>
    /\ delivered[2].recipient = <<5, 24>>
    /\ webhook = <<>>

\* C2: when a greenlet of the set has ended while the main loop runs, the
\* step that ends the current sleep finds the group below its full size,
\* sends the death alert and leaves the main loop, whichever greenlet ended.
C2_DeathDetectedAtNextPoll ==
    [][(pc = "sleep" /\ pc' # "sleep" /\ Cardinality(group) < Cardinality(Greenlets))
         => (emails' = Append(emails, "death") /\ pc' = "stopping")]_vars

C2_Witness ==
    /\ pc = "stopping"
    /\ Cardinality(group) = Cardinality(Greenlets) - 1
    /\ emails[Len(emails)] = "death"

\* C3 as stated: once a greenlet of the set has ended, no transfer event is
\* processed while the supervisor is still in its main loop.
C3_NoEventAfterDeath ==
    [][(TaskDied /\ pc \in {"loop_head", "sleep"})
         => (delivered' = delivered /\ webhook' = webhook)]_vars

\* C3 amended: events are processed only during a sleep of the main loop
\* that began with the full set alive and before any death alert or stop;
\* so after a greenlet ends, events are processed only until the next poll.
C3_EventsOnlyUntilNextPoll ==
    /\ [](pc = "loop_head" => group = Greenlets)
    /\ [][Delivery => (pc = "sleep" /\ pc' = "sleep" /\ Alerts("death") = 0
                        /\ stopped = <<>>)]_vars

C3_Witness ==
    /\ TaskDied
    /\ pc = "sleep"
    /\ WatcherGreenlet \in group
    /\ Len(webhook) = 1
    /\ Len(delivered) = 1

\* C4: the healthy alert is sent at the first poll that finds the full set
\* started, and never a second time.
C4_HealthyAlertOnce ==
    /\ [](Alerts("alive") <= 1 /\ (sent_start_email <=> Alerts("alive") = 1))
    /\ [][(pc = "sleep" /\ pc' # "sleep" /\ group = Greenlets
             /\ started = Greenlets /\ Alerts("alive") = 0)
            => emails' = Append(emails, "alive")]_vars

C4_Witness ==
    /\ Alerts("alive") = 1
    /\ pc = "loop_head"
    /\ group = Greenlets
    /\ started = Greenlets
    /\ Len(delivered) = MaxEvents

\* C5: when a greenlet ends mid-run exactly one death alert is sent, stop()
\* is then invoked on the watcher and on the RPC service, and stop() is not
\* invoked before the alert.
C5_OneDeathAlertThenStops ==
    /\ Alerts("death") <= 1
    /\ (TaskDied /\ pc \in {"stopping", "stop_rpc", "done"}) => Alerts("death") = 1
    /\ (TaskDied /\ stopped # <<>>) => Alerts("death") = 1
    /\ pc = "done" => stopped = <<"wutx", "zaprpc">>
    /\ pc # "done" => (stopped = <<>> \/ stopped = <<"wutx">>)

C5_Witness ==
    /\ TaskDied
    /\ pc = "done"
    /\ Alerts("death") = 1
    /\ stopped = <<"wutx", "zaprpc">>

\* C6: the SIGINT handler clears the run flag, and under fair scheduling
\* of the main greenlet the loop is then left and stop is requested on the
\* watcher and on the RPC service before the process ends.
C6_SigintLeadsToStop ==
    /\ [](sigint_caught => ~keep_running)
    /\ sigint_caught ~> (pc = "done" /\ stopped = <<"wutx", "zaprpc">>)

C6_Witness ==
    /\ sigint_caught
    /\ pc = "done"
    /\ group = Greenlets
    /\ Alerts("death") = 0
    /\ stopped = <<"wutx", "zaprpc">>

\* C7: the webhook is called once per delivery of a matching event, with
\* no deduplication, and call i carries the txid, timestamp, derived sender
\* address, amount and decoded invoice id of the i-th matching delivery.
C7_OneWebhookPerMatchingDelivery ==
    LET md == MatchingDelivered IN
    /\ Len(webhook) = Len(md)
    /\ \A i \in 1..Len(webhook) :
         LET ev == md[i]
             m == webhook[i].msg
         IN /\ m.txid = ev.txid
            /\ m.timestamp = ev.timestamp
            /\ m.sender = address_from_public_key(chain, ev.pubkey)
            /\ m.amount = ev.amount
            /\ m.invoice_id = extract_invoice_id(ev.attachment)
            /\ m.recipient = cfg.address

C7_Witness ==
    /\ Len(webhook) = 2
    /\ webhook[1].msg.txid = "t1"
    /\ webhook[2].msg.txid = "t1"
    /\ webhook[1].msg.invoice_id = <<4, 2>>
    /\ delivered[1] = delivered[2]

\* C8: a matching event whose attachment does not decode still yields one
\* webhook call, with the invoice id absent, and no error in the watcher.
C8_UndecodableAttachmentStillDispatched ==
    [][(Delivery /\ b58encode(LastDelivered.recipient) = cfg.address
          /\ extract_invoice_id(LastDelivered.attachment) = Absent)
         => (/\ Len(webhook') = Len(webhook) + 1
             /\ webhook'[Len(webhook')].msg.invoice_id = Absent
             /\ webhook'[Len(webhook')].msg.txid = LastDelivered.txid
             /\ group' = group
             /\ started' = started)]_vars

C8_Witness ==
    /\ Len(delivered) = 1
    /\ delivered[1].attachment = AttMalformed
    /\ Len(webhook) = 1
    /\ webhook[1].msg.invoice_id = Absent

C10_NoWorkersWithoutConfig ==
    read_cfg(rawcfg).raised
        => (/\ pc \in {"load", "crashed"}
            /\ group = {}
            /\ started = {}
            /\ emails = <<>>
            /\ webhook = <<>>)

C10_Witness ==
    /\ read_cfg(rawcfg).raised
    /\ pc = "crashed"

\* the main loop has been entered (the workers were started)
Running == pc \in {"loop_head", "sleep", "stopping", "stop_rpc", "done"}

C12_HealthyOnlyWhenAllRunning ==
    /\ [][Alerts("alive")' > Alerts("alive")
            => (/\ group = Greenlets
                /\ started = Greenlets
                /\ Alerts("death") = 0
                /\ pc = "sleep")]_vars
    /\ [][Alerts("death") > 0 => emails' = emails]_vars

C12_Witness ==
    /\ emails = <<"alive", "death">>
    /\ pc = "stopping"

\* C13: the watcher hands notifications to the webhook sink in the order
\* in which the feed delivers their events: each matching delivery appends
\* exactly its own call behind all earlier ones.
C13_ProcessedInFeedOrder ==
    /\ [][webhook' # webhook
            => (/\ Delivery
                /\ Len(webhook') = Len(webhook) + 1
                /\ SubSeq(webhook', 1, Len(webhook)) = webhook
                /\ webhook'[Len(webhook')].msg.txid = LastDelivered.txid
                /\ webhook'[Len(webhook')].msg.timestamp = LastDelivered.timestamp)]_vars
    /\ [][(Delivery /\ b58encode(LastDelivered.recipient) = cfg.address)
            => webhook' # webhook]_vars

C13_Witness ==
    /\ Len(webhook) = 2
    /\ delivered[1].txid = "t2"
    /\ delivered[2].txid = "t1"
    /\ webhook[1].msg.txid = "t2"
    /\ webhook[2].msg.txid = "t1"

C15_TerminatedIsFinal ==
    /\ [][Running => (/\ Cardinality(group') <= Cardinality(group)
                      /\ \A g \in Greenlets \ group :
                            g \notin group' /\ g \notin started')]_vars
    /\ [](Running => start_calls = <<"zaprpc", "wutx">>)
    /\ [](~Running => start_calls = <<>>)

C15_Witness ==
    /\ pc = "done"
    /\ Cardinality(group) = 1
    /\ start_calls = <<"zaprpc", "wutx">>

\* C16 as stated: once the main loop has begun, the membership of the task
\* set never changes.
C16_MembershipNeverChanges ==
    [][Running => group' = group]_vars

\* C16 amended: once the main loop has begun nothing is added to the set;
\* a greenlet that ends is discarded from it, one at a time and while the
\* main loop sleeps, and no step of the supervisor itself changes the set.
C16_GroupOnlyLosesFinished ==
    /\ [][Running => (/\ group' \subseteq group
                      /\ Cardinality(group \ group') <= 1)]_vars
    /\ [][(Running /\ group' # group)
            => (pc = "sleep" /\ pc' = "sleep" /\ (group \ group') \subseteq started)]_vars
    /\ [][(Running /\ pc' # pc) => group' = group]_vars

C16_Witness ==
    /\ pc = "sleep"
    /\ sent_start_email
    /\ group = Greenlets \ {WatcherGreenlet}

\* C17 as stated: once the handler has cleared the run flag, no alert is
\* emitted any more.
C17_NoAlertAfterSigint ==
    [][~keep_running => emails' = emails]_vars

\* C17 amended: once the run flag is cleared the supervisor begins no
\* further sleep; it runs the checks at most once more, after the sleep in
\* which the signal arrived, which emits at most one alert.
C17_AtMostOnePassAfterSigint ==
    [][~keep_running
         => (/\ (pc' = "sleep" => pc = "sleep")
             /\ (emails' # emails
                   => (/\ pc = "sleep"
                       /\ pc' \in {"loop_head", "stopping"}
                       /\ Len(emails') = Len(emails) + 1)))]_vars

C17_Witness ==
    /\ ~keep_running
    /\ pc = "stop_rpc"
    /\ emails = <<"alive">>
    /\ stopped = <<"wutx">>

\* the stored ApiKey rows that were made for the request with this token
KeysFor(token) == {k \in api_keys : k.for_token = token}

\* C18: a request yields its API key through api_key_claim only after it
\* was confirmed through api_key_confirm with the matching secret, before
\* its expiry and with confirm = true, and at most once: the claim deletes
\* the request and a later claim with the same token returns no key.
C18_ClaimOnlyAfterConfirmAndOnce ==
    /\ \A t \in 1..MaxRequests :
         /\ api_claimed[t] <= 1
         /\ api_claimed[t] = 1
              => (t \in api_confirmed /\ from_token(api_requests, t) = {})
    /\ (api_resp.op = "claim" /\ api_resp.key # NoKey)
         => (/\ api_resp.token \in api_confirmed
             /\ \E k \in KeysFor(api_resp.token) : k.id = api_resp.key)

C18_Witness ==
    /\ api_claimed[1] = 1
    /\ api_resp.op = "claim"
    /\ api_resp.token = 1
    /\ api_resp.key = NoKey

\* C19: api_key_claim with a non-empty token that matches no stored request
\* answers NOT_FOUND and leaves the stored state unchanged; it does not
\* fault.
C19_ClaimUnknownTokenNotFound ==
    (api_resp.op = "claim" /\ api_resp.token # NoToken /\ ~api_resp.stored)
        => api_resp.status = "NOT_FOUND"

\* C20: at most one ApiKey row is ever stored for one API-key request.
C20_OneKeyPerRequest ==
    \A t \in 1..MaxRequests : Cardinality(KeysFor(t)) <= 1

\* the stored order that has the token of o after the step
OrderAfter(o) == CHOOSE n \in broker_orders' : n.token = o.token

\* C21: broker_order_accept changes an order's status only from CREATED to
\* READY, and only for the owner, before the expiry and with a payment
\* request created; a rejected call leaves the orders and the payment
\* requests as they are, and no order is accepted twice.
C21_AcceptOnlyCreatedOwnedUnexpired ==
    [][/\ \A o \in broker_orders :
            /\ \E n \in broker_orders' : n.token = o.token
            /\ OrderAfter(o) # o =>
                 /\ o.status = STATUS_CREATED
                 /\ OrderAfter(o).status = STATUS_READY
                 /\ OrderAfter(o).windcave_payment_request # NoPayment
                 /\ OrderAfter(o).windcave_payment_request \in payment_requests'
                 /\ broker_resp'.op = "accept"
                 /\ broker_resp'.status = "OK"
                 /\ broker_resp'.token = o.token
                 /\ broker_resp'.caller = o.user
                 /\ o.token \notin broker_expired
       /\ (broker_resp'.op = "accept" /\ broker_resp'.status # "OK")
            => (broker_orders' = broker_orders
                /\ payment_requests' = payment_requests)
       /\ \A t \in DOMAIN broker_accepts : broker_accepts'[t] <= 1]_vars

\* an accepted order for which a second accept by its owner was rejected
C21_Witness ==
    \E o \in broker_orders :
        /\ o.status = STATUS_READY
        /\ o.windcave_payment_request # NoPayment
        /\ broker_accepts[o.token] = 1
        /\ broker_resp = [op |-> "accept", token |-> o.token,
                          caller |-> o.user, status |-> "INVALID_STATUS"]

\* C22: whatever the order and the interleaving of the registration and
\* email-update calls, no two users have one email address, and no
\* registration or email-update token creates or changes a user twice.
C22_UniqueEmailsAndSingleUseTokens ==
    /\ \A u, v \in users : u.email = v.email => u = v
    /\ \A t \in DOMAIN token_uses : token_uses[t] <= 1

\* C23: after every websocket event ws_sids has exactly the sessions that
\* authenticated and have not disconnected, each session is in the room of
\* the email ws_sids gives it and in no other, and an auth event that
\* fails changes neither ws_sids nor the rooms.
C23_SidsMatchRooms ==
    [][/\ DOMAIN ws_sids' = ws_authed'
       /\ \A s \in Sids :
            ws_rooms'[s] = IF s \in DOMAIN ws_sids' THEN {ws_sids'[s]} ELSE {}
       /\ (ws_info'.op = "auth" /\ ws_info'.text # "authenticated!")
            => (ws_sids' = ws_sids /\ ws_rooms' = ws_rooms)]_vars

====
